---------------------------- MODULE Spec2Model ----------------------------
(***************************************************************************)
(* Model of the BrainTumorClassifier component (src/unnamed/part_001):     *)
(* the upload-to-result pipeline of handleFileUpload, the sample-image     *)
(* click handler and resetAnalysis, over the three React state cells       *)
(* uploadedImage, isLoading and result.                                    *)
(*                                                                         *)
(* Numbers.  A JavaScript number is modelled as a record                   *)
(* [nan |-> BOOLEAN, v |-> Int]: either NaN or an exact value.  Raw        *)
(* probabilities are counted in thousandths (700 is 0.7) and confidences   *)
(* in thousandths of a percent (70000 is 70.0), so that "* 100" is an      *)
(* exact integer multiplication; binary floating-point rounding is not     *)
(* modelled.                                                               *)
(*                                                                         *)
(* Strings that the code inspects (the declared content type) are          *)
(* sequences of one-character strings.                                     *)
(***************************************************************************)
EXTENDS Integers, Sequences, FiniteSets

VARIABLES
    uploadedImage,  \* useState<string | null>(null)
    isLoading,      \* useState(false)
    result,         \* useState<ClassificationResult | null>(null)
    toast,          \* title of the last notification emitted with toast()
    cycles,         \* the invocations of handleFileUpload that passed validation,
                    \* in the order they started: the file, the uploadedImage of
                    \* the closure (img), whether the preview read (preview) and
                    \* the submission (fetch) are pending, and the submission's
                    \* outcome once it has arrived (resp)
    samples,        \* sample-image clicks whose fetch of the asset is pending
    current         \* history variable: index in cycles of the upload cycle the
                    \* session belongs to, 0 when there is none (initially, and
                    \* after a reset).  The code keeps no such token.

vars == <<uploadedImage, isLoading, result, toast, cycles, samples, current>>

Null == [k |-> "null"]

(***************************************************************************)
(* Bounds of the model.                                                    *)
(***************************************************************************)
\* handleFileUpload invocations (accepted) plus pending sample clicks per run
MaxCycles == 2
\* longest numeric sequence drawn as the first data element
MaxArrLen == 5

(***************************************************************************)
(* Files.                                                                  *)
(***************************************************************************)
ImagePrefix == <<"i", "m", "a", "g", "e", "/">>

\* file.type.startsWith(prefix)
startsWith(s, prefix) ==
    /\ Len(s) >= Len(prefix)
    /\ SubSeq(s, 1, Len(prefix)) = prefix

\* 10 * 1024 * 1024
MaxFileSize == 10 * 1024 * 1024

FileTypes ==
    { <<"i", "m", "a", "g", "e", "/", "p", "n", "g">>,
      <<"i", "m", "a", "g", "e">>,
      <<"t", "e", "x", "t", "/", "i", "m", "a", "g", "e", "/">> }

FileSizes == {0, MaxFileSize, MaxFileSize + 1}

Files == [type : FileTypes, size : FileSizes]

\* new File([blob], 'sample-mri.jpg', { type: 'image/jpeg' }).  The size of the
\* bundled asset is not in the source; it is taken to be within the limit.
SampleFile ==
    [type |-> <<"i", "m", "a", "g", "e", "/", "j", "p", "e", "g">>, size |-> MaxFileSize - 1]

\* the imported asset URL brainMriSample
brainMriSample == [k |-> "asset", file |-> SampleFile]

\* what reader.readAsDataURL(file) delivers to reader.onload
DataUrl(file) == [k |-> "dataurl", file |-> file]


(***************************************************************************)
(* JavaScript values met while the response is parsed.                     *)
(***************************************************************************)
Num(v) == [nan |-> FALSE, v |-> v]
NaN == [nan |-> TRUE, v |-> 0]

\* entries of the prediction sequence or mapping, as JSON delivers them
Undefined == [k |-> "undef", v |-> 0]
NumE(v) == [k |-> "num", v |-> v]
\* a non-empty string that is not a numeral, such as "high"
StrE == [k |-> "str", v |-> 0]

\* ToBoolean, as used by ||
Truthy(e) ==
    CASE e.k = "num" -> e.v # 0
      [] e.k = "str" -> TRUE
      [] OTHER -> FALSE

\* a || b
OrJS(a, b) == IF Truthy(a) THEN a ELSE b

\* ToNumber
ToNumber(e) ==
    CASE e.k = "num" -> Num(e.v)
      [] OTHER -> NaN

\* (e) * 100
Times100(e) == IF ToNumber(e).nan THEN NaN ELSE Num(ToNumber(e).v * 100)

\* x - y on numbers
Minus(x, y) == IF x.nan \/ y.nan THEN NaN ELSE Num(x.v - y.v)

\* predictions[i], i counted from 0
Index(arr, i) == IF i + 1 <= Len(arr) THEN arr[i + 1] ELSE Undefined

\* predictions[key]
Get(obj, key) == IF key \in DOMAIN obj THEN obj[key] ELSE Undefined

(***************************************************************************)
(* The taxonomy and the mapping of the first data element.                 *)
(***************************************************************************)
\* tumorTypes, in declaration order
tumorTypes == <<"No Tumor", "Glioma Tumor", "Meningioma Tumor", "Pituitary Tumor">>

Classes == {tumorTypes[i] : i \in 1..Len(tumorTypes)}

SnakeKeys == {"glioma_tumor", "meningioma_tumor", "no_tumor", "pituitary_tumor"}

Keys == SnakeKeys \cup Classes

\* ArrayMapped with the positions read in the order tumorTypes declares
ArrayMappedDeclared(p) ==
    << [class |-> "No Tumor", confidence |-> Times100(OrJS(Index(p, 0), NumE(0)))],
       [class |-> "Glioma Tumor", confidence |-> Times100(OrJS(Index(p, 1), NumE(0)))],
       [class |-> "Meningioma Tumor", confidence |-> Times100(OrJS(Index(p, 2), NumE(0)))],
       [class |-> "Pituitary Tumor", confidence |-> Times100(OrJS(Index(p, 3), NumE(0)))] >>

\* Array.isArray(predictions) branch
ArrayMapped(p) ==
    << [class |-> "Glioma Tumor", confidence |-> Times100(OrJS(Index(p, 0), NumE(0)))],
       [class |-> "Meningioma Tumor", confidence |-> Times100(OrJS(Index(p, 1), NumE(0)))],
       [class |-> "No Tumor", confidence |-> Times100(OrJS(Index(p, 2), NumE(0)))],
       [class |-> "Pituitary Tumor", confidence |-> Times100(OrJS(Index(p, 3), NumE(0)))] >>

\* KeyedConfidence without the trailing || 0
KeyedConfidenceNoDefault(o, snake, label) ==
    Times100(OrJS(Get(o, snake), Get(o, label)))

\* one line of the typeof predictions === 'object' branch
KeyedConfidence(o, snake, label) ==
    Times100(OrJS(OrJS(Get(o, snake), Get(o, label)), NumE(0)))

\* typeof predictions === 'object' branch
ObjectMapped(o) ==
    << [class |-> "Glioma Tumor",
        confidence |-> KeyedConfidence(o, "glioma_tumor", "Glioma Tumor")],
       [class |-> "Meningioma Tumor",
        confidence |-> KeyedConfidence(o, "meningioma_tumor", "Meningioma Tumor")],
       [class |-> "No Tumor",
        confidence |-> KeyedConfidence(o, "no_tumor", "No Tumor")],
       [class |-> "Pituitary Tumor",
        confidence |-> KeyedConfidence(o, "pituitary_tumor", "Pituitary Tumor")] >>

(***************************************************************************)
(* mappedPredictions.sort((a, b) => b.confidence - a.confidence)           *)
(***************************************************************************)
\* the comparator; sort reads a NaN returned by it as +0
Compare(a, b) ==
    LET d == Minus(b.confidence, a.confidence)
    IN  IF d.nan THEN 0 ELSE d.v

\* x placed behind every element that does not have to follow it
RECURSIVE Insert(_, _)
Insert(s, x) ==
    IF s = <<>> THEN <<x>>
    ELSE IF Compare(Head(s), x) > 0 THEN <<x>> \o s
    ELSE <<Head(s)>> \o Insert(Tail(s), x)

\* the stable sort ECMAScript requires for a consistent comparator
RECURSIVE SortDesc(_)
SortDesc(s) ==
    IF s = <<>> THEN <<>>
    ELSE Insert(SortDesc(SubSeq(s, 1, Len(s) - 1)), s[Len(s)])

Permutations(s) ==
    { [i \in 1..Len(s) |-> s[f[i]]] :
        f \in {g \in [1..Len(s) -> 1..Len(s)] : \A i, j \in 1..Len(s) : g[i] = g[j] => i = j} }

\* The orders sort may leave.  With a NaN confidence the comparator is not a
\* consistent comparison function and the order is implementation-defined.
Sorted(s) ==
    IF \E i \in 1..Len(s) : s[i].confidence.nan
    THEN Permutations(s)
    ELSE {SortDesc(s)}

(***************************************************************************)
(* Outcomes of the submission.  A response is                              *)
(*   [t |-> "neterr"]   fetch rejects (the request cannot be sent)         *)
(*   [t |-> "status"]   response.ok is false                               *)
(*   [t |-> "badjson"]  response.json() rejects                            *)
(*   [t |-> "json"]     response.json() delivers body, the apiResult:      *)
(*        body.k  "null" | "scalar" | "obj"                                *)
(*        body.data.k  "absent" (missing or falsy) | "scalar" (truthy, not *)
(*                     an array) | "arr" with the elements body.data.items *)
(* and an element of data is                                               *)
(*        [k |-> "scalar"] a number, string or boolean; [k |-> "null"];    *)
(*        [k |-> "arr"] with the entries arr; [k |-> "obj"] with the       *)
(*        entries obj, a function from its keys.                           *)
(***************************************************************************)
NoData == [k |-> "absent", items |-> <<>>]
ScalarData == [k |-> "scalar", items |-> <<>>]
ArrData(items) == [k |-> "arr", items |-> items]

ScalarP == [k |-> "scalar", arr |-> <<>>, obj |-> <<>>]
NullP == [k |-> "null", arr |-> <<>>, obj |-> <<>>]
UndefinedP == [k |-> "undef", arr |-> <<>>, obj |-> <<>>]
ArrP(a) == [k |-> "arr", arr |-> a, obj |-> <<>>]
ObjP(o) == [k |-> "obj", arr |-> <<>>, obj |-> o]

NoBody == [k |-> "none", data |-> NoData]
NetErr == [t |-> "neterr", body |-> NoBody]
BadStatus == [t |-> "status", body |-> NoBody]
BadJson == [t |-> "badjson", body |-> NoBody]
Json(bk, data) == [t |-> "json", body |-> [k |-> bk, data |-> data]]

\* a response whose data is the one-element sequence [p]
WithFirst(p) == Json("obj", ArrData(<<p>>))

\* no outcome yet
Pending == [t |-> "pending", body |-> NoBody]

Thrown == [ok |-> FALSE, mapped |-> <<>>]

\* ParseResponse with a null first element read as a mapping without keys
ParseResponseNullAsObject(r) ==
    IF r.t # "json" THEN Thrown
    ELSE IF r.body.k = "null" THEN Thrown
    ELSE IF r.body.k # "obj" \/ r.body.data.k # "arr"
         THEN Thrown
    ELSE LET predictions ==
                 IF Len(r.body.data.items) = 0 THEN UndefinedP
                 ELSE r.body.data.items[1]
         IN  IF predictions.k = "arr"
             THEN [ok |-> TRUE, mapped |-> ArrayMapped(predictions.arr)]
             ELSE IF predictions.k \in {"obj", "null"}
             THEN [ok |-> TRUE, mapped |-> ObjectMapped(predictions.obj)]
             ELSE Thrown

\* lines 104-149 and 164-166: the mapped predictions before the sort, or Thrown
\* when control passes to the catch block
ParseResponse(r) ==
    IF r.t # "json" THEN Thrown                       \* fetch, !response.ok, json()
    ELSE IF r.body.k = "null" THEN Thrown             \* TypeError reading .data
    ELSE IF r.body.k # "obj" \/ r.body.data.k # "arr"
         THEN Thrown                                  \* 'Unexpected API response format'
    ELSE LET predictions ==
                 IF Len(r.body.data.items) = 0 THEN UndefinedP
                 ELSE r.body.data.items[1]
         IN  IF predictions.k = "arr"
             THEN [ok |-> TRUE, mapped |-> ArrayMapped(predictions.arr)]
             ELSE IF predictions.k = "obj"
             THEN [ok |-> TRUE, mapped |-> ObjectMapped(predictions.obj)]
             ELSE Thrown   \* typeof null is 'object': TypeError reading a key;
                           \* otherwise 'Unexpected prediction format'

\* the catch block's mockPredictions
mockPredictions ==
    << [class |-> "No Tumor", confidence |-> Num(72400)],
       [class |-> "Glioma Tumor", confidence |-> Num(18600)],
       [class |-> "Pituitary Tumor", confidence |-> Num(6800)],
       [class |-> "Meningioma Tumor", confidence |-> Num(2200)] >>

\* uploadedImage || ''
OrEmpty(img) == IF img = Null THEN [k |-> "empty"] ELSE img

\* the object handed to setResult
MakeResult(preds, img) ==
    [predictions |-> preds,
     primaryPrediction |-> preds[1].class,
     uploadedImage |-> OrEmpty(img)]

(***************************************************************************)
(* Inputs the model draws.                                                 *)
(***************************************************************************)
\* entries of a sequence: numbers and a string that is no numeral
ArrEntries == {NumE(0), NumE(150), NumE(700), StrE}

\* values of a mapping's keys: zero and two other numbers

ObjEntries == {NumE(0), NumE(150), NumE(700)}

Failures ==
    { NetErr, BadStatus, BadJson,
      Json("null", NoData), Json("scalar", NoData),
      Json("obj", NoData), Json("obj", ScalarData), Json("obj", ArrData(<<>>)),
      WithFirst(ScalarP), WithFirst(NullP) }

\* the outcomes drawn for the checks of the session: a failure and the
\* well-formed sequence [0.7, 0.1, 0.15, 0.05]
Responses ==
    { NetErr,
      WithFirst(ArrP(<<NumE(700), NumE(100), NumE(150), NumE(50)>>)) }

\* further sequences drawn for the checks of the parsing: the one that maps to
\* the confidences of mockPredictions, and four equal values
Examples ==
    { WithFirst(ArrP(<<NumE(186), NumE(22), NumE(724), NumE(68)>>)),
      WithFirst(ArrP(<<NumE(250), NumE(250), NumE(250), NumE(250)>>)) }

(***************************************************************************)
(* The component.                                                          *)
(***************************************************************************)
Init ==
    /\ uploadedImage = Null
    /\ isLoading = FALSE
    /\ result = Null
    /\ toast = "none"
    /\ cycles = <<>>
    /\ samples = <<>>
    /\ current = 0

\* Validate without the check of the content type
ValidateSizeOnly(file) ==
    IF file.size > MaxFileSize THEN "TooLarge" ELSE "Ok"

\* Validate rejecting a file of exactly the limit
ValidateAtLeast(file) ==
    IF ~startsWith(file.type, ImagePrefix) THEN "NotAnImage"
    ELSE IF file.size >= MaxFileSize THEN "TooLarge"
    ELSE "Ok"

\* Validate with the two checks in the other order
ValidateSizeFirst(file) ==
    IF file.size > MaxFileSize THEN "TooLarge"
    ELSE IF ~startsWith(file.type, ImagePrefix) THEN "NotAnImage"
    ELSE "Ok"

\* lines 63-81: the two checks of handleFileUpload, in their order
Validate(file) ==
    IF ~startsWith(file.type, ImagePrefix) THEN "NotAnImage"
    ELSE IF file.size > MaxFileSize THEN "TooLarge"
    ELSE "Ok"

\* the last toast handleFileUpload emits before its first await
UploadToast(file) ==
    CASE Validate(file) = "NotAnImage" -> "Invalid File Type"
      [] Validate(file) = "TooLarge" -> "File Too Large"
      [] OTHER -> "Processing Image"

\* handleFileUpload clearing the result before it validates the file
handleFileUploadClearsFirst(file, img) ==
    IF Validate(file) = "Ok"
    THEN /\ cycles' = Append(cycles, [file |-> file, img |-> img, preview |-> TRUE,
                                      fetch |-> TRUE, resp |-> Pending])
         /\ isLoading' = TRUE
         /\ result' = Null
         /\ current' = Len(cycles) + 1
    ELSE /\ result' = Null
         /\ UNCHANGED <<cycles, isLoading, current>>

\* handleFileUpload without setResult(null)
handleFileUploadKeepsResult(file, img) ==
    IF Validate(file) = "Ok"
    THEN /\ cycles' = Append(cycles, [file |-> file, img |-> img, preview |-> TRUE,
                                      fetch |-> TRUE, resp |-> Pending])
         /\ isLoading' = TRUE
         /\ current' = Len(cycles) + 1
         /\ UNCHANGED result
    ELSE UNCHANGED <<cycles, isLoading, result, current>>

\* handleFileUpload without setIsLoading(true)
handleFileUploadNotLoading(file, img) ==
    IF Validate(file) = "Ok"
    THEN /\ cycles' = Append(cycles, [file |-> file, img |-> img, preview |-> TRUE,
                                      fetch |-> TRUE, resp |-> Pending])
         /\ result' = Null
         /\ current' = Len(cycles) + 1
         /\ UNCHANGED isLoading
    ELSE UNCHANGED <<cycles, isLoading, result, current>>

\* handleFileUpload(file) up to its first await (lines 62-110), called from a
\* closure whose uploadedImage is img: a rejected file returns at once, an
\* accepted one starts the preview read and the submission
handleFileUpload(file, img) ==
    IF Validate(file) = "Ok"
    THEN /\ cycles' = Append(cycles, [file |-> file, img |-> img, preview |-> TRUE,
                                      fetch |-> TRUE, resp |-> Pending])
         /\ isLoading' = TRUE
         /\ result' = Null
         /\ current' = Len(cycles) + 1
    ELSE UNCHANGED <<cycles, isLoading, result, current>>

\* the model stops starting cycles at limit
Room(file, limit) == Validate(file) = "Ok" => Len(cycles) + Len(samples) < limit

\* handleFileSelect (lines 56-60); the input is rendered while !uploadedImage
\* (line 235) and the handler is the one of the latest render
handleFileSelect(file, limit) ==
    /\ uploadedImage = Null
    /\ Room(file, limit)
    /\ handleFileUpload(file, uploadedImage)
    /\ toast' = UploadToast(file)
    /\ UNCHANGED <<uploadedImage, samples>>

\* handleDrop (lines 46-54); useCallback(..., []) keeps the first render's
\* handleFileUpload, whose uploadedImage is null
handleDrop(file, limit) ==
    /\ uploadedImage = Null
    /\ Room(file, limit)
    /\ handleFileUpload(file, Null)
    /\ toast' = UploadToast(file)
    /\ UNCHANGED <<uploadedImage, samples>>

\* the sample's onClick up to its first await (lines 290-293); the closure
\* keeps the uploadedImage of the render that was clicked
SampleClick(limit) ==
    /\ Len(cycles) + Len(samples) < limit
    /\ samples' = Append(samples, uploadedImage)
    /\ UNCHANGED <<uploadedImage, isLoading, result, toast, cycles, current>>

Remove(s, k) == SubSeq(s, 1, k - 1) \o SubSeq(s, k + 1, Len(s))

\* lines 294-303: the asset is fetched
SampleLoaded(k) ==
    /\ k \in 1..Len(samples)
    /\ samples' = Remove(samples, k)
    /\ uploadedImage' = brainMriSample
    /\ handleFileUpload(SampleFile, samples[k])
    /\ toast' = "Sample Image Loaded"

\* lines 304-310: the fetch of the asset fails
SampleFailed(k) ==
    /\ k \in 1..Len(samples)
    /\ samples' = Remove(samples, k)
    /\ toast' = "Error"
    /\ UNCHANGED <<uploadedImage, isLoading, result, cycles, current>>

\* reader.onload that also ends the loading state
PreviewLoadedEndsLoading(i) ==
    /\ i \in 1..Len(cycles)
    /\ cycles[i].preview
    /\ uploadedImage' = DataUrl(cycles[i].file)
    /\ cycles' = [cycles EXCEPT ![i].preview = FALSE]
    /\ isLoading' = FALSE
    /\ UNCHANGED <<result, toast, samples, current>>

\* reader.onload that starts the display over
PreviewLoadedClearsResult(i) ==
    /\ i \in 1..Len(cycles)
    /\ cycles[i].preview
    /\ uploadedImage' = DataUrl(cycles[i].file)
    /\ cycles' = [cycles EXCEPT ![i].preview = FALSE]
    /\ result' = Null
    /\ UNCHANGED <<isLoading, toast, samples, current>>

\* reader.onload (lines 86-88)
PreviewLoaded(i) ==
    /\ i \in 1..Len(cycles)
    /\ cycles[i].preview
    /\ uploadedImage' = DataUrl(cycles[i].file)
    /\ cycles' = [cycles EXCEPT ![i].preview = FALSE]
    /\ UNCHANGED <<isLoading, result, toast, samples, current>>

\* invocation i is suspended at await fetch(...) or await response.json()
Awaiting(i) == i \in 1..Len(cycles) /\ cycles[i].fetch

\* Complete whose catch block submits the file once more
CompleteRetries(i, r) ==
    /\ Awaiting(i)
    /\ IF ParseResponse(r).ok
       THEN /\ cycles' = [cycles EXCEPT ![i].fetch = FALSE, ![i].resp = r]
            /\ \E preds \in Sorted(ParseResponse(r).mapped) :
                  result' = MakeResult(preds, cycles[i].img)
            /\ toast' = "Analysis Complete"
       ELSE /\ cycles' = Append([cycles EXCEPT ![i].fetch = FALSE, ![i].resp = r],
                                [cycles[i] EXCEPT !.preview = FALSE])
            /\ result' = MakeResult(mockPredictions, cycles[i].img)
            /\ toast' = "Demo Results"
    /\ isLoading' = FALSE
    /\ UNCHANGED <<uploadedImage, samples, current>>

\* Complete without the catch block: an exception leaves by finally alone
CompleteNoCatch(i, r) ==
    /\ Awaiting(i)
    /\ cycles' = [cycles EXCEPT ![i].fetch = FALSE, ![i].resp = r]
    /\ IF ParseResponse(r).ok
       THEN /\ \E preds \in Sorted(ParseResponse(r).mapped) :
                  result' = MakeResult(preds, cycles[i].img)
            /\ toast' = "Analysis Complete"
       ELSE UNCHANGED <<result, toast>>
    /\ isLoading' = FALSE
    /\ UNCHANGED <<uploadedImage, samples, current>>

\* handleFileUpload from the fetch's outcome to its end (lines 104-198)
Complete(i, r) ==
    /\ Awaiting(i)
    /\ cycles' = [cycles EXCEPT ![i].fetch = FALSE, ![i].resp = r]
    /\ IF ParseResponse(r).ok
       THEN /\ \E preds \in Sorted(ParseResponse(r).mapped) :
                  result' = MakeResult(preds, cycles[i].img)
            /\ toast' = "Analysis Complete"
       ELSE /\ result' = MakeResult(mockPredictions, cycles[i].img)
            /\ toast' = "Demo Results"
    /\ isLoading' = FALSE
    /\ UNCHANGED <<uploadedImage, samples, current>>

\* resetAnalysis without setUploadedImage(null)
resetAnalysisKeepsImage ==
    /\ uploadedImage # Null
    /\ result' = Null
    /\ isLoading' = FALSE
    /\ current' = 0
    /\ UNCHANGED <<uploadedImage, toast, cycles, samples>>

\* resetAnalysis (lines 201-205); its button is rendered while uploadedImage
\* is set (lines 235, 275-281)
resetAnalysis ==
    /\ uploadedImage # Null
    /\ uploadedImage' = Null
    /\ result' = Null
    /\ isLoading' = FALSE
    /\ current' = 0
    /\ UNCHANGED <<toast, cycles, samples>>

Next ==
    \/ \E f \in Files : handleFileSelect(f, MaxCycles)
    \/ \E f \in Files : handleDrop(f, MaxCycles)
    \/ SampleClick(MaxCycles)
    \/ \E k \in 1..MaxCycles : SampleLoaded(k)
    \/ \E k \in 1..MaxCycles : SampleFailed(k)
    \/ \E i \in 1..MaxCycles : PreviewLoaded(i)
    \/ \E i \in 1..MaxCycles, r \in Responses : Complete(i, r)
    \/ resetAnalysis

Spec == Init /\ [][Next]_vars

\* one upload cycle of one file, completed by every response shape
NextParse ==
    \/ \E f \in {g \in Files : Validate(g) = "Ok" /\ g.size = 0} : handleFileSelect(f, 1)
    \/ /\ Awaiting(1)
       /\ \E r \in Failures \cup Responses \cup Examples : Complete(1, r)
    \/ /\ Awaiting(1)
       /\ \E m \in 0..MaxArrLen : \E a \in [1..m -> ArrEntries] :
             Complete(1, WithFirst(ArrP(a)))
    \/ /\ Awaiting(1)
       /\ \E K \in SUBSET Keys : \E o \in [K -> ObjEntries] :
             Complete(1, WithFirst(ObjP(o)))

ParseSpec == Init /\ [][NextParse]_vars

\* a session in which every file picked or dropped is of a wrong type and
\* larger than the limit; the sample stays available
NextReject ==
    \/ \E f \in {g \in Files : ~startsWith(g.type, ImagePrefix) /\ g.size > MaxFileSize} :
          handleFileSelect(f, MaxCycles)
    \/ \E f \in {g \in Files : ~startsWith(g.type, ImagePrefix) /\ g.size > MaxFileSize} :
          handleDrop(f, MaxCycles)
    \/ SampleClick(MaxCycles)
    \/ \E k \in 1..MaxCycles : SampleLoaded(k)
    \/ \E k \in 1..MaxCycles : SampleFailed(k)
    \/ \E i \in 1..MaxCycles : PreviewLoaded(i)
    \/ \E i \in 1..MaxCycles, r \in Responses : Complete(i, r)
    \/ resetAnalysis

RejectSpec == Init /\ [][NextReject]_vars

(***************************************************************************)
(* Vocabulary of the properties.                                           *)
(***************************************************************************)
\* an upload event of file f: the file picker or a drop
Uploads(f) == handleFileSelect(f, MaxCycles) \/ handleDrop(f, MaxCycles)

\* the outcome of invocation i arrives in this step
Arrives(i) == i \in 1..Len(cycles) /\ cycles[i].fetch /\ ~cycles'[i].fetch

IsImageType(f) == Len(f.type) >= 6 /\ SubSeq(f.type, 1, 6) = <<"i", "m", "a", "g", "e", "/">>

(***************************************************************************)
(* C1.  If a second upload cycle is started while the first is in flight   *)
(* and the first's outcome arrives after the second has resolved, the      *)
(* result held afterwards is the second cycle's: an outcome that arrives   *)
(* for a cycle older than the current one, once the current one has        *)
(* resolved, leaves the result as it is.                                   *)
(***************************************************************************)
C1_LateOutcomeDropped ==
    [][\A i \in 1..Len(cycles) :
          (Arrives(i) /\ i < current /\ ~cycles[current].fetch) => result' = result]_vars

(***************************************************************************)
(* C2.  After a reset requested while the latest submission is in flight,  *)
(* the session is Idle and stays Idle when that submission's outcome       *)
(* arrives: no result, loading flag false.                                 *)
(***************************************************************************)
C2_ResetOutcomeDropped ==
    [][(current = 0 /\ Arrives(Len(cycles))) => (result' = Null /\ isLoading' = FALSE)]_vars

(***************************************************************************)
(* C3.  A file whose declared content type does not start with "image/"    *)
(* is rejected with the invalid-type notification and starts no            *)
(* submission, whatever its size; no submission ever belongs to such a     *)
(* file.                                                                   *)
(***************************************************************************)
C3_NonImageRejected ==
    /\ [](\A i \in 1..Len(cycles) : IsImageType(cycles[i].file))
    /\ [][\A f \in Files :
             (~IsImageType(f) /\ Uploads(f))
                => (toast' = "Invalid File Type" /\ cycles' = cycles)]_vars

\* a non-image file was rejected while a submission was in flight
C3_Witness ==
    /\ toast = "Invalid File Type"
    /\ \E i \in 1..Len(cycles) : cycles[i].fetch

(***************************************************************************)
(* C4.  An image-typed file is rejected as too large exactly when its size *)
(* exceeds 10 * 1024 * 1024 bytes: a larger one starts no submission, one  *)
(* of exactly that size or smaller starts a cycle for that file.           *)
(***************************************************************************)
C4_TooLargeBoundary ==
    [][\A f \in Files :
          (IsImageType(f) /\ Uploads(f))
             => IF f.size >= 10485761
                THEN toast' = "File Too Large" /\ cycles' = cycles
                ELSE /\ toast' = "Processing Image"
                     /\ Len(cycles') = Len(cycles) + 1
                     /\ cycles'[Len(cycles')].file = f
                     /\ cycles'[Len(cycles')].fetch]_vars

\* a file of exactly 10 MiB is in flight and a file of 10 MiB + 1 was rejected
C4_Witness ==
    /\ toast = "File Too Large"
    /\ \E i \in 1..Len(cycles) : cycles[i].file.size = 10485760 /\ cycles[i].fetch

(***************************************************************************)
(* C5.  A rejected file, wrong type or too large, leaves the image, the    *)
(* loading flag and the result as they were.                               *)
(***************************************************************************)
C5_RejectionChangesNothing ==
    [][\A f \in Files :
          ((~IsImageType(f) \/ f.size > 10485760) /\ Uploads(f))
             => UNCHANGED <<uploadedImage, isLoading, result>>]_vars

\* a file was rejected while a result was shown
C5_Witness ==
    /\ toast \in {"Invalid File Type", "File Too Large"}
    /\ result # Null

(***************************************************************************)
(* Vocabulary of the properties on the parsing of the response.            *)
(***************************************************************************)
\* invocation i has finished with the outcome it recorded
Done(i) == i \in 1..Len(cycles) /\ ~cycles[i].fetch

\* the first element of the data sequence of a response that has one
FirstOf(r) == r.body.data.items[1]

HasFirst(r) ==
    /\ r.t = "json"
    /\ r.body.k = "obj"
    /\ r.body.data.k = "arr"
    /\ Len(r.body.data.items) > 0

\* the submission failed or the response is malformed
IsFailure(r) ==
    \/ r.t \in {"neterr", "status", "badjson"}
    \/ r.t = "json" /\ ~HasFirst(r)
    \/ HasFirst(r) /\ FirstOf(r).k \notin {"arr", "obj"}

IsNumeric(a) == \A j \in 1..Len(a) : a[j].k = "num"

\* the confidence stored for class c
ConfidenceOf(res, c) ==
    (CHOOSE p \in {res.predictions[j] : j \in 1..Len(res.predictions)} : p.class = c).confidence

Descending(preds) ==
    \A j \in 1..(Len(preds) - 1) :
        /\ ~preds[j].confidence.nan
        /\ ~preds[j + 1].confidence.nan
        /\ preds[j].confidence.v >= preds[j + 1].confidence.v

\* each of the four classes exactly once
AllClassesOnce(preds) ==
    /\ Len(preds) = 4
    /\ \A c \in {"No Tumor", "Glioma Tumor", "Meningioma Tumor", "Pituitary Tumor"} :
          Cardinality({j \in 1..Len(preds) : preds[j].class = c}) = 1

\* position in the sequence, and snake_case key, of each class
PositionOf(c) ==
    CASE c = "Glioma Tumor" -> 1
      [] c = "Meningioma Tumor" -> 2
      [] c = "No Tumor" -> 3
      [] c = "Pituitary Tumor" -> 4

SnakeOf(c) ==
    CASE c = "Glioma Tumor" -> "glioma_tumor"
      [] c = "Meningioma Tumor" -> "meningioma_tumor"
      [] c = "No Tumor" -> "no_tumor"
      [] c = "Pituitary Tumor" -> "pituitary_tumor"

(***************************************************************************)
(* C6.  When the submission fails or the response is malformed, the cycle  *)
(* ends with the fixed fallback distribution, No Tumor 72.4, Glioma Tumor  *)
(* 18.6, Pituitary Tumor 6.8, Meningioma Tumor 2.2 in that order, and      *)
(* primaryPrediction "No Tumor".                                           *)
(***************************************************************************)
C6_FailureGivesFallback ==
    [][\A i \in 1..Len(cycles) :
          (Arrives(i) /\ IsFailure(cycles'[i].resp))
             => /\ result' # Null
                /\ result'.predictions =
                      << [class |-> "No Tumor", confidence |-> Num(72400)],
                         [class |-> "Glioma Tumor", confidence |-> Num(18600)],
                         [class |-> "Pituitary Tumor", confidence |-> Num(6800)],
                         [class |-> "Meningioma Tumor", confidence |-> Num(2200)] >>
                /\ result'.primaryPrediction = "No Tumor"]_vars

\* a cycle ended on a response whose first data element is null
C6_Witness ==
    /\ Done(1)
    /\ HasFirst(cycles[1].resp)
    /\ FirstOf(cycles[1].resp).k = "null"
    /\ result # Null

(***************************************************************************)
(* C7.  For a first data element [a, b, c, d] of four numbers the stored   *)
(* result gives Glioma Tumor 100a, Meningioma Tumor 100b, No Tumor 100c    *)
(* and Pituitary Tumor 100d, the confidences sum to 100 (a + b + c + d)    *)
(* and are in descending order; [0.7, 0.1, 0.15, 0.05] gives the primary   *)
(* prediction Glioma Tumor with confidence 70.                             *)
(***************************************************************************)
C7_FourNumbersMapped ==
    (Done(1) /\ HasFirst(cycles[1].resp) /\ FirstOf(cycles[1].resp).k = "arr"
        /\ Len(FirstOf(cycles[1].resp).arr) = 4 /\ IsNumeric(FirstOf(cycles[1].resp).arr))
    => LET a == FirstOf(cycles[1].resp).arr
           sum == result.predictions[1].confidence.v + result.predictions[2].confidence.v
                    + result.predictions[3].confidence.v + result.predictions[4].confidence.v
       IN  /\ result # Null
           /\ AllClassesOnce(result.predictions)
           /\ ConfidenceOf(result, "Glioma Tumor") = Num(100 * a[1].v)
           /\ ConfidenceOf(result, "Meningioma Tumor") = Num(100 * a[2].v)
           /\ ConfidenceOf(result, "No Tumor") = Num(100 * a[3].v)
           /\ ConfidenceOf(result, "Pituitary Tumor") = Num(100 * a[4].v)
           /\ sum = 100 * (a[1].v + a[2].v + a[3].v + a[4].v)
           /\ Descending(result.predictions)
           /\ (a = <<NumE(700), NumE(100), NumE(150), NumE(50)>>
                 => /\ result.primaryPrediction = "Glioma Tumor"
                    /\ result.predictions[1].confidence = Num(70000))

\* the cycle ended on [0.7, 0.1, 0.15, 0.05]
C7_Witness ==
    /\ Done(1)
    /\ HasFirst(cycles[1].resp)
    /\ FirstOf(cycles[1].resp).k = "arr"
    /\ FirstOf(cycles[1].resp).arr = <<NumE(700), NumE(100), NumE(150), NumE(50)>>
    /\ result # Null

(***************************************************************************)
(* C8.  For a first data element that is a keyed mapping, or a sequence of *)
(* fewer than four numbers, every class whose keys or position are missing *)
(* gets confidence 0, and the stored predictions hold each of the four     *)
(* classes exactly once.                                                   *)
(***************************************************************************)
C8_MissingDefaultsToZero ==
    (Done(1) /\ HasFirst(cycles[1].resp))
    => LET p == FirstOf(cycles[1].resp)
       IN  /\ p.k = "obj"
                => /\ result # Null
                   /\ AllClassesOnce(result.predictions)
                   /\ \A c \in Classes :
                         (SnakeOf(c) \notin DOMAIN p.obj /\ c \notin DOMAIN p.obj)
                            => ConfidenceOf(result, c) = Num(0)
           /\ (p.k = "arr" /\ Len(p.arr) < 4 /\ IsNumeric(p.arr))
                => /\ result # Null
                   /\ AllClassesOnce(result.predictions)
                   /\ \A c \in Classes :
                         PositionOf(c) > Len(p.arr) => ConfidenceOf(result, c) = Num(0)

\* the cycle ended on a mapping that has a key of one class only
C8_Witness ==
    /\ Done(1)
    /\ HasFirst(cycles[1].resp)
    /\ FirstOf(cycles[1].resp).k = "obj"
    /\ DOMAIN FirstOf(cycles[1].resp).obj = {"Pituitary Tumor"}
    /\ ConfidenceOf(result, "Pituitary Tumor") = Num(70000)
    /\ ConfidenceOf(result, "Glioma Tumor") = Num(0)

(***************************************************************************)
(* C9.  In a keyed mapping that holds both the snake_case key and the      *)
(* label key of a class, the confidence stored for the class is 100 times  *)
(* the snake_case key's value, whatever the two values are.                *)
(***************************************************************************)
C9_SnakeCasePreferred ==
    (Done(1) /\ HasFirst(cycles[1].resp) /\ FirstOf(cycles[1].resp).k = "obj")
    => \A c \in Classes :
          (SnakeOf(c) \in DOMAIN FirstOf(cycles[1].resp).obj
              /\ c \in DOMAIN FirstOf(cycles[1].resp).obj)
          => ConfidenceOf(result, c) = Num(100 * FirstOf(cycles[1].resp).obj[SnakeOf(c)].v)

(***************************************************************************)
(* C10.  Whenever a result is present, predictions is non-empty,           *)
(* primaryPrediction is the class of predictions[0], and predictions[0]    *)
(* has the greatest confidence of the list.                                *)
(***************************************************************************)
C10_PrimaryIsMaximum ==
    result # Null
    => /\ Len(result.predictions) > 0
       /\ result.primaryPrediction = result.predictions[1].class
       /\ \A j \in 1..Len(result.predictions) :
             /\ ~result.predictions[1].confidence.nan
             /\ ~result.predictions[j].confidence.nan
             /\ result.predictions[1].confidence.v >= result.predictions[j].confidence.v

(***************************************************************************)
(* C11.  Predictions are in descending order of confidence and classes of  *)
(* equal confidence follow the declaration order of the taxonomy, No       *)
(* Tumor, Glioma Tumor, Meningioma Tumor, Pituitary Tumor; with four equal *)
(* confidences the primary prediction is No Tumor.  Stated for results     *)
(* whose confidences are all numbers.                                      *)
(***************************************************************************)
DeclaredIndex(c) == CHOOSE j \in 1..Len(tumorTypes) : tumorTypes[j] = c

C11_TiesInDeclaredOrder ==
    (result # Null /\ \A j \in 1..Len(result.predictions) : ~result.predictions[j].confidence.nan)
    => \A j, k \in 1..Len(result.predictions) :
          j < k
          => \/ result.predictions[j].confidence.v > result.predictions[k].confidence.v
             \/ /\ result.predictions[j].confidence.v = result.predictions[k].confidence.v
                /\ DeclaredIndex(result.predictions[j].class)
                      < DeclaredIndex(result.predictions[k].class)

(***************************************************************************)
(* C12.  Reset requested while a result is shown gives exactly the Idle    *)
(* state: image null, result null, loading flag false.                     *)
(***************************************************************************)
C12_ResetGivesIdle ==
    [][(resetAnalysis /\ result # Null)
          => (uploadedImage' = Null /\ result' = Null /\ isLoading' = FALSE)]_vars

\* the only cycle has finished and its image and result are gone
C12_Witness ==
    /\ Len(cycles) = 1
    /\ Done(1)
    /\ samples = <<>>
    /\ uploadedImage = Null
    /\ result = Null
    /\ isLoading = FALSE

(***************************************************************************)
(* C13.  When the submission of an accepted file completes, with success   *)
(* or with any failure of the network call or of the parsing, the session  *)
(* leaves Loading in that step and holds a result with a non-empty list of *)
(* predictions: no failure leaves it loading or without a result.          *)
(***************************************************************************)
C13_CompletionGivesResult ==
    [][\A i \in 1..Len(cycles) :
          Arrives(i)
             => /\ isLoading' = FALSE
                /\ result' # Null
                /\ Len(result'.predictions) > 0
                /\ result'.primaryPrediction \in Classes]_vars

\* the cycle ended on a body that could not be parsed
C13_Witness ==
    /\ Done(1)
    /\ cycles[1].resp.t = "badjson"
    /\ isLoading = FALSE
    /\ result # Null

(***************************************************************************)
(* C14.  A fallback result held in session state can be told from a        *)
(* genuine one: the result stored for a well-formed response is never the  *)
(* result a failed submission of the same cycle stores, also when the      *)
(* response maps to the confidences 72.4, 18.6, 6.8, 2.2.                  *)
(***************************************************************************)
\* what the catch block of invocation i stores
FallbackResultOf(i) == MakeResult(mockPredictions, cycles[i].img)

C14_FallbackDistinguishable ==
    (Done(1) /\ ~IsFailure(cycles[1].resp)) => result # FallbackResultOf(1)

(***************************************************************************)
(* C15.  While the submission of the most recently started cycle is in     *)
(* flight and no reset has been requested since it started, the session is *)
(* loading with no result: the completion of an older cycle neither clears *)
(* the loading flag nor sets a result.                                     *)
(***************************************************************************)
C15_CurrentCycleKeepsLoading ==
    (current # 0 /\ Awaiting(current)) => (isLoading = TRUE /\ result = Null)

(***************************************************************************)
(* C16.  The loading flag is never true while a result is present, under   *)
(* every interleaving of uploads, preview loads, completions and resets.   *)
(***************************************************************************)
C16_LoadingExcludesResult == ~(isLoading = TRUE /\ result # Null)

\* a cycle started while the result of an earlier one was displayed
C16_Witness ==
    \E i, j \in 1..Len(cycles) :
       /\ i < j
       /\ Done(i)
       /\ Awaiting(j)
       /\ current = j
       /\ isLoading = TRUE
       /\ result = Null

(***************************************************************************)
(* C17.  Each accepted upload (file picked, file dropped, sample loaded)   *)
(* starts exactly one submission: a step starts one submission if it is an *)
(* accepted upload and none otherwise, a submission is never dropped, and  *)
(* a submission that has settled, with whatever outcome, is never in       *)
(* flight again.                                                           *)
(***************************************************************************)
AcceptedUpload ==
    \/ \E f \in Files : Validate(f) = "Ok" /\ Uploads(f)
    \/ \E k \in 1..Len(samples) : SampleLoaded(k)

C17_OneSubmissionPerUpload ==
    [][/\ Len(cycles') = Len(cycles) + (IF AcceptedUpload THEN 1 ELSE 0)
       /\ \A i \in 1..Len(cycles) :
             /\ cycles'[i].file = cycles[i].file
             /\ Done(i) => ~cycles'[i].fetch]_vars

\* one upload whose submission failed: one submission, settled
C17_Witness ==
    /\ Len(cycles) = 1
    /\ Done(1)
    /\ cycles[1].resp.t = "neterr"
    /\ samples = <<>>
    /\ result # Null

(***************************************************************************)
(* C18.  A result produced by a cycle whose preview has loaded carries the *)
(* preview of that cycle's file as its uploadedImage, not the empty        *)
(* string and not the image of an earlier cycle.                           *)
(***************************************************************************)
C18_ResultCarriesPreview ==
    [][\A i \in 1..Len(cycles) :
          (Arrives(i) /\ ~cycles[i].preview)
             => result'.uploadedImage = DataUrl(cycles[i].file)]_vars

(***************************************************************************)
(* C19.  When the first element of the data sequence is a sequence of more *)
(* than 4 entries or with a non-numeric entry, the cycle ends with the     *)
(* fixed fallback distribution and not with a result mapped from that      *)
(* sequence.                                                               *)
(***************************************************************************)
C19_IrregularSequenceFallsBack ==
    (/\ Done(1)
     /\ HasFirst(cycles[1].resp)
     /\ FirstOf(cycles[1].resp).k = "arr"
     /\ \/ Len(FirstOf(cycles[1].resp).arr) > 4
        \/ ~IsNumeric(FirstOf(cycles[1].resp).arr))
    => result.predictions = mockPredictions

(***************************************************************************)
(* C20.  When the preview read of a cycle resolves, the image becomes that *)
(* cycle's preview and the loading flag and the result keep their values,  *)
(* before as well as after the submission has completed.                   *)
(***************************************************************************)
C20_PreviewChangesImageOnly ==
    [][\A i \in 1..Len(cycles) :
          (cycles[i].preview /\ ~cycles'[i].preview)
             => /\ uploadedImage' = DataUrl(cycles[i].file)
                /\ isLoading' = isLoading
                /\ result' = result]_vars

\* the preview of the current cycle loaded while its submission was in flight
C20_Witness ==
    /\ current # 0
    /\ Awaiting(current)
    /\ ~cycles[current].preview
    /\ isLoading = TRUE
    /\ uploadedImage = DataUrl(cycles[current].file)

(***************************************************************************)
(* C21.  An accepted file (picked, dropped or the loaded sample) puts the  *)
(* session in Loading in the step that starts its preview read: after the  *)
(* step the loading flag is true, the result of an earlier cycle is        *)
(* cleared, and the new cycle's preview read and submission are both       *)
(* pending.                                                                *)
(***************************************************************************)
C21_AcceptedEntersLoading ==
    [][AcceptedUpload
          => /\ isLoading' = TRUE
             /\ result' = Null
             /\ cycles'[Len(cycles')].preview
             /\ cycles'[Len(cycles')].fetch]_vars

\* a cycle started after an earlier one had stored its result with the
\* loading flag false; its preview has not loaded
C21_Witness ==
    /\ current > 1
    /\ Awaiting(current)
    /\ cycles[current].preview
    /\ \A i \in 1..(current - 1) : Done(i)
    /\ isLoading = TRUE
    /\ result = Null

(***************************************************************************)
(* C22.  In a session of one upload cycle, without a reset, the preview    *)
(* may load before or after the submission completes, and once both have   *)
(* happened the state is the same in both orders: the image is the preview *)
(* of the cycle's file, the loading flag is false and the result is the    *)
(* outcome of the cycle's submission.                                      *)
(***************************************************************************)
\* the results invocation i can store for the outcome it recorded
OutcomesOf(i) ==
    IF ParseResponse(cycles[i].resp).ok
    THEN {MakeResult(preds, cycles[i].img) : preds \in Sorted(ParseResponse(cycles[i].resp).mapped)}
    ELSE {MakeResult(mockPredictions, cycles[i].img)}

\* one cycle, started and not reset
SingleCycle == Len(cycles) = 1 /\ current = 1

C22_BothOrdersSameState ==
    /\ [](SingleCycle /\ Done(1) /\ ~cycles[1].preview
             => /\ uploadedImage = DataUrl(cycles[1].file)
                /\ isLoading = FALSE
                /\ result \in OutcomesOf(1))
    /\ [][(SingleCycle /\ Arrives(1) /\ cycles[1].preview)
             => (isLoading' = FALSE /\ result' \in OutcomesOf(1)')]_vars
    /\ [][(SingleCycle /\ Awaiting(1) /\ cycles[1].preview /\ ~cycles'[1].preview)
             => (uploadedImage' = DataUrl(cycles[1].file) /\ isLoading' = TRUE /\ result' = Null)]_vars

\* the cycle of a picked file has ended, preview and submission
C22_Witness ==
    /\ SingleCycle
    /\ samples = <<>>
    /\ Done(1)
    /\ ~cycles[1].preview
    /\ cycles[1].file \in Files
    /\ uploadedImage = DataUrl(cycles[1].file)
    /\ isLoading = FALSE
    /\ result \in OutcomesOf(1)

(***************************************************************************)
(* C23.  Once the session is idle after a reset it stays idle until the    *)
(* next selection event: a preview read of the ended cycle that resolves   *)
(* after the reset does not attach an image.                               *)
(***************************************************************************)
Idle == uploadedImage = Null /\ result = Null /\ isLoading = FALSE

\* the preview read of cycle i delivers in this step
PreviewResolves(i) == i \in 1..Len(cycles) /\ cycles[i].preview /\ ~cycles'[i].preview

C23_IdleAfterResetKept ==
    [][(current = 0 /\ Idle /\ \E i \in 1..Len(cycles) : PreviewResolves(i)) => Idle']_vars

(***************************************************************************)
(* C24.  With two upload cycles, once both preview reads and both          *)
(* submissions have completed, the image and the result are those of the   *)
(* cycle started last: a preview of the older file that loads late does    *)
(* not replace the newer file's image.                                     *)
(***************************************************************************)
C24_LatestCycleOwnsState ==
    (/\ Len(cycles) = 2
     /\ current = 2
     /\ samples = <<>>
     /\ \A i \in 1..2 : Done(i) /\ ~cycles[i].preview)
    => /\ uploadedImage = DataUrl(cycles[2].file)
       /\ result \in OutcomesOf(2)

\* the image part alone: the two files differ and the image is the older one's
C24_ImageOfLatestCycle ==
    (/\ Len(cycles) = 2
     /\ current = 2
     /\ samples = <<>>
     /\ \A i \in 1..2 : Done(i) /\ ~cycles[i].preview)
    => uploadedImage = DataUrl(cycles[2].file)

(***************************************************************************)
(* C25.  The content-type check runs before the size check: a file that is *)
(* not an image and is larger than 10 MiB is rejected with the             *)
(* invalid-type notification, and the too-large notification is not        *)
(* reported for it as well.                                                *)
(***************************************************************************)
C25_TypeCheckedFirst ==
    /\ [](toast # "File Too Large")
    /\ [][\A f \in Files :
             (~IsImageType(f) /\ f.size > MaxFileSize /\ Uploads(f))
                => /\ toast' = "Invalid File Type"
                   /\ UploadToast(f) # "File Too Large"
                   /\ cycles' = cycles]_vars

\* a file of a wrong type and too large was rejected while the sample's
\* result was shown
C25_Witness ==
    /\ toast = "Invalid File Type"
    /\ Len(cycles) > 0
    /\ \A i \in 1..Len(cycles) : cycles[i].file = SampleFile
    /\ result # Null

=============================================================================
